---- MODULE Spec2Model ----
(***************************************************************************)
(* The intelliflash input plugin (plugins/inputs/intelliflash).            *)
(*                                                                         *)
(* One collector instance `s` (type intelliflash) is polled by Gather.     *)
(* Gather spawns one goroutine per configured server; every goroutine runs *)
(* listSystemProperties, getOneMinuteAnalyticsHistory(SYSTEM), and, when   *)
(* configured, getOneMinuteAnalyticsHistory(DATA) and getCapacity.  The    *)
(* goroutines share s.client and s.SystemName without any lock, and the    *)
(* accumulator acc.                                                        *)
(*                                                                         *)
(* Text is modelled as a sequence of characters: "A/Us" is                 *)
(* <<"A", "/", "U", "s">>; a literal the code never takes apart may be a   *)
(* single token (Lit).  Category names, which the code only compares and   *)
(* changes the case of, are TLA+ strings.  TLS configuration and URL       *)
(* parsing are taken to succeed (s.ClientConfig.TLSConfig(), url.Parse and *)
(* http.NewRequest return no error for the configurations modelled).       *)
(***************************************************************************)
EXTENDS Integers, Sequences, FiniteSets, TLC

VARIABLES
    Servers,          \* s.Servers: the configured addresses
    Username,         \* s.Username
    Password,         \* s.Password
    DataMetrics,      \* s.DataMetrics: a nil map, or a map's set of keys
    CapacityMetrics,  \* s.CapacityMetrics: a nil map, or a map's set of keys
    client,           \* s.client: 0 is nil, n > 0 the n-th client constructed
    clientsBuilt,     \* how many http.Client values doRequest has constructed
    SystemName,       \* s.SystemName
    phase,            \* the poll cycle: Idle, Collecting (inside Gather), Settled
    ret,              \* what the last Gather call returned
    polls,            \* Gather calls made so far
    wg,               \* the WaitGroup counter of the running Gather call
    pc,               \* per goroutine: where it stands
    step,             \* per goroutine: the step it is in
    resp,             \* per goroutine: the decoded response being imported
    idx,              \* per goroutine: importData's loop index into resp
    records,          \* acc: the metrics added by AddFields in this cycle
    errors,           \* acc: the errors added by AddError in this cycle
    firstError,       \* acc: the first error added in this cycle (acc.Errors[0])
    requests,         \* the requests handed to s.client.Do in this cycle
    clientsUsed,      \* the clients whose Do has been called so far
    faults,           \* failing answers the servers have given in this cycle
    imp               \* the last direct call of importData: arguments and result

vars ==
    <<Servers, Username, Password, DataMetrics, CapacityMetrics, client,
      clientsBuilt, SystemName, phase, ret, polls, wg, pc, step, resp, idx,
      records, errors, firstError, requests, clientsUsed, faults, imp>>

config == <<Servers, Username, Password, DataMetrics, CapacityMetrics>>

----------------------------------------------------------------------------
\* Bounds of the model.

MaxServers == 2

MaxPolls == 2

MaxGroups == 2

\* failing answers (transport error, status, undecodable body) per poll cycle
MaxFaults == 1

----------------------------------------------------------------------------
\* Text.

EmptyStr == <<>>

Lit(tok) == <<tok>>

\* strings.Split(s, sep) for a one-token separator
RECURSIVE Split(_, _)
Split(s, sep) ==
    IF \A i \in 1..Len(s) : s[i] # sep
    THEN <<s>>
    ELSE LET k == CHOOSE i \in 1..Len(s) :
                      s[i] = sep /\ \A j \in 1..(i - 1) : s[j] # sep
         IN <<SubSeq(s, 1, k - 1)>> \o Split(SubSeq(s, k + 1, Len(s)), sep)

\* strings.HasPrefix(s, prefix)
HasPrefix(s, prefix) ==
    Len(s) >= Len(prefix) /\ SubSeq(s, 1, Len(prefix)) = prefix

\* strings.ToUpper / strings.ToLower on the category names the model uses
ToUpper(w) ==
    CASE w = "cpu" -> "CPU"
      [] w = "Network" -> "NETWORK"
      [] OTHER -> w

ToLower(w) ==
    CASE w = "Vm" -> "vm"
      [] w = "DATASET" -> "dataset"
      [] OTHER -> w

\* Go's integer division: the quotient truncated toward zero
GoDiv(a, b) ==
    IF a >= 0 THEN a \div b ELSE -((-a) \div b)

\* a Go map m with m[k] = v stored
Put(m, k, v) ==
    [x \in (DOMAIN m) \cup {k} |-> IF x = k THEN v ELSE m[x]]

EmptyMap == <<>>

\* the orders in which a range over a map with key set D can visit the keys
Orders(D) ==
    {o \in [1..Cardinality(D) -> D] : \A i, j \in 1..Cardinality(D) : o[i] = o[j] => i = j}

----------------------------------------------------------------------------
\* The decoded response (analyticsElement) and the mapping of importData.

SYSTEM == "SYSTEM"

DATA == "DATA"

CAPACITY == "CAPACITY"

Slash == "/"

\* one analyticsElement as json decodes it; absent members are zero values
Element(sat, etype, ename, ts, dps, name, avail, total) ==
    [SystemAnalyticsType |-> sat, EntityType |-> etype, EntityName |-> ename,
     Timestamps |-> ts, Datapoints |-> dps,
     Name |-> name, AvailableSize |-> avail, TotalSize |-> total]

\* tags["array"], lines 265-269
ArrayTag(host, sysname) ==
    IF Len(sysname) = 0 THEN host ELSE sysname[1]

\* the (dpname, midx) pairs of the two inner loops, lines 272-273, when the
\* range over e.Datapoints visits the keys in the order `order`
RECURSIVE Visits(_, _)
Visits(e, order) ==
    IF order = <<>>
    THEN <<>>
    ELSE [i \in 1..Len(e.Datapoints[Head(order)]) |-> [dp |-> Head(order), i |-> i]]
         \o Visits(e, Tail(order))

\* SystemCase, were the switch to have a default case that stores the sample
\* under the path's first segment
SystemCaseWithDefault(e, name, v, fields, tags) ==
    LET sat == ToUpper(e.SystemAnalyticsType) IN
    CASE sat = "POOL_PERFORMANCE" ->
           [tags |-> Put(Put(tags, "pool", name[1]), "disktype", name[2]),
            fields |-> Put(fields, name[3], v)]
      [] sat = "NETWORK" ->
           IF HasPrefix(name[2], <<"I">>)
           THEN [tags |-> Put(Put(tags, "controller", name[1]), "interface", name[3]),
                 fields |-> Put(fields, name[4], v)]
           ELSE [tags |-> Put(tags, "controller", name[1]),
                 fields |-> Put(fields, name[2] \o <<"_">> \o name[3], v)]
      [] sat \in {"CPU", "CACHE_HITS"} ->
           [tags |-> Put(tags, "controller", name[1]), fields |-> Put(fields, name[2], v)]
      [] OTHER -> [tags |-> tags, fields |-> Put(fields, name[1], v)]

\* the switch on strings.ToUpper(SystemAnalyticsType), lines 278-299: the
\* tags and fields maps after the assignments for one datapoint sample
SystemCase(e, name, v, fields, tags) ==
    LET sat == ToUpper(e.SystemAnalyticsType) IN
    CASE sat = "POOL_PERFORMANCE" ->
           [tags |-> Put(Put(tags, "pool", name[1]), "disktype", name[2]),
            fields |-> Put(fields, name[3], v)]
      [] sat = "NETWORK" ->
           IF HasPrefix(name[2], <<"I">>)
           THEN [tags |-> Put(Put(tags, "controller", name[1]), "interface", name[3]),
                 fields |-> Put(fields, name[4], v)]
           ELSE [tags |-> Put(tags, "controller", name[1]),
                 fields |-> Put(fields, name[2] \o <<"_">> \o name[3], v)]
      [] sat = "CPU" ->
           [tags |-> Put(tags, "controller", name[1]), fields |-> Put(fields, name[2], v)]
      [] sat = "CACHE_HITS" ->
           [tags |-> Put(tags, "controller", name[1]), fields |-> Put(fields, name[2], v)]
      [] OTHER -> [tags |-> tags, fields |-> fields]

\* case DATA, lines 300-304
DataCase(e, name, v, fields, tags) ==
    [tags |-> Put(tags, ToLower(e.EntityType), e.EntityName),
     fields |-> Put(fields, name[1], v)]

\* UnixSeconds, were line 305 to hand the milliseconds to time.Unix
UnixSecondsNoDivision(ms) == ms

\* the seconds handed to time.Unix, line 305
UnixSeconds(ms) == GoDiv(ms, 1000)

\* the body of the two inner loops, lines 272-307: `fields` and `tags` are the
\* maps made once per element (lines 261-263), so what one iteration stores
\* is still there in the next; AddFields copies the maps it is given
RECURSIVE Walk(_, _, _, _, _, _)
Walk(e, t, vs, fields, tags, out) ==
    IF vs = <<>>
    THEN out
    ELSE LET dp == Head(vs).dp
             midx == Head(vs).i
             name == Split(dp, Slash)
             v == e.Datapoints[dp][midx]
             m == IF t = SYSTEM
                  THEN SystemCase(e, name, v, fields, tags)
                  ELSE DataCase(e, name, v, fields, tags)
             rec == [measurement |-> IF t = SYSTEM THEN e.SystemAnalyticsType
                                                   ELSE e.EntityType,
                     fields |-> m.fields, tags |-> m.tags,
                     ts |-> UnixSeconds(e.Timestamps[midx]),
                     dp |-> dp, i |-> midx]
         IN Walk(e, t, Tail(vs), m.fields, m.tags, Append(out, rec))

\* case CAPACITY, lines 308-313
CapacityRecord(e, tags, now) ==
    [measurement |-> "CAPACITY",
     fields |-> Put(Put(EmptyMap, Lit("available_size"), e.AvailableSize),
                    Lit("total_size"), e.TotalSize),
     tags |-> Put(tags, "pool", e.Name),
     ts |-> now, dp |-> EmptyStr, i |-> 0]

\* one iteration of the loop over analytics, lines 260-315: the records
\* AddFields receives, in order.  `sysname` is s.SystemName as this iteration
\* reads it, `order` the order of the range over the element's datapoints,
\* `now` what time.Now() returns.
importElement(e, host, t, sysname, order, now) ==
    LET tags == Put(EmptyMap, "array", ArrayTag(host, sysname)) IN
    CASE t \in {SYSTEM, DATA} -> Walk(e, t, Visits(e, order), EmptyMap, tags, <<>>)
      [] t = CAPACITY -> <<CapacityRecord(e, tags, now)>>
      [] OTHER -> <<>>

----------------------------------------------------------------------------
\* The configurations and the servers' answers the model draws from.

Addrs == {<<"a">>, <<"b">>}

\* the server lists, up to a renaming of the addresses: "b" is used only
\* after "a"
ServerLists ==
    {l \in UNION {[1..n -> Addrs] : n \in 0..MaxServers} :
        \A i \in DOMAIN l : l[i] = <<"b">> => \E j \in 1..(i - 1) : l[j] = <<"a">>}

\* an address nothing listens on: every s.client.Do to it fails
Unreachable == {<<"x">>}

\* the server lists with an unreachable first server and a healthy second one
OutageLists ==
    IF MaxServers >= 2 THEN {<<<<"x">>, <<"b">>>>} ELSE {}

\* a server entry with userinfo in front of the host: "u:p@c"
UserinfoLists == {<<<<"u", ":", "p", "@", "c">>>>}

\* u.User of the URL "https://" + addr + apiURI + ..., lines 337 and 350:
\* the part of the authority in front of "@", split at ":"
UserInfo(addr) ==
    LET parts == Split(addr, "@") IN
    IF Len(parts) < 2
    THEN [present |-> FALSE, user |-> EmptyStr, password |-> EmptyStr]
    ELSE LET up == Split(parts[1], ":") IN
         [present |-> TRUE, user |-> up[1],
          password |-> IF Len(up) < 2 THEN EmptyStr ELSE up[2]]

\* no Authorization header
NoAuth == [set |-> FALSE, user |-> EmptyStr, password |-> EmptyStr]

\* lines 349-360: basic auth is set from the URL's userinfo when there is
\* one, then from the configuration when a username or a password is
\* configured; otherwise doRequest returns the missing-credentials error
Authorization(addr, username, password) ==
    LET ui == UserInfo(addr)
        fromURL == IF ui.present
                   THEN [set |-> TRUE, user |-> ui.user, password |-> ui.password]
                   ELSE NoAuth
    IN IF username # EmptyStr \/ password # EmptyStr
       THEN [err |-> FALSE,
             auth |-> [set |-> TRUE, user |-> username, password |-> password]]
       ELSE [err |-> TRUE, auth |-> fromURL]

\* username and password as configured
Credentials ==
    {<<EmptyStr, EmptyStr>>, <<Lit("admin"), Lit("admin")>>}

\* the keys of the configured data_metrics tables
GroupNames == 1..MaxGroups

NilMap == [nil |-> TRUE, keys |-> {}]

Map(keys) == [nil |-> FALSE, keys |-> keys]

\* the name the array at addr reports for INTELLIFLASH_ARRAY_FQDN
FQDN(addr) == <<"n">> \o addr

NoBody == [json |-> "none", names |-> <<>>, elems |-> <<>>]

\* bodies of a 200 answer to listSystemProperties: the array's name, and
\* text that is not JSON
IdentityBodies(addr) ==
    {[json |-> "ok", names |-> <<FQDN(addr)>>, elems |-> <<>>],
     [json |-> "syntax", names |-> <<>>, elems |-> <<>>]}

CpuElement ==
    Element("CPU", "", EmptyStr, <<1500, 61999>>,
            (<<"A", "/", "U">> :> <<0, 25>>), EmptyStr, 0, 0)

VmElement ==
    Element("", "Vm", <<"v", "1">>, <<1500>>,
            (<<"R">> :> <<7>>), EmptyStr, 0, 0)

DatasetElement ==
    Element("", "DATASET", <<"d", "1">>, <<1500>>,
            (<<"W">> :> <<9>>), EmptyStr, 0, 0)

PoolElement ==
    Element("", "", EmptyStr, <<>>, EmptyMap, <<"p", "1">>, 10, 40)

OkBody(elems) == [json |-> "ok", names |-> <<>>, elems |-> elems]

BadBody == [json |-> "syntax", names |-> <<>>, elems |-> <<>>]

\* what a healthy array answers to the request of analytics type t
ValidElems(t) ==
    CASE t = SYSTEM -> <<CpuElement>>
      [] t = DATA -> <<VmElement, DatasetElement>>
      [] OTHER -> <<PoolElement>>

\* bodies of a 200 answer to the analytics and capacity requests
AnalyticsBodies(t) ==
    {BadBody, OkBody(ValidElems(t))}

\* what time.Now() returns, in seconds
WallClock == {100}

----------------------------------------------------------------------------
\* The accumulator and the steps of one goroutine.

NoError == [task |-> 0, step |-> "none", kind |-> "none", wrapped |-> FALSE]

Tasks == 1..Len(Servers)

\* the step after s in the goroutine body, lines 162-177
NextStep(s) ==
    LET afterData == IF ~CapacityMetrics.nil THEN "capacity" ELSE "exit"
        afterSystem == IF ~DataMetrics.nil THEN "data" ELSE afterData
    IN CASE s = "identity" -> "system"
         [] s = "system" -> afterSystem
         [] s = "data" -> afterData
         [] OTHER -> "exit"

\* the analyticsType a step hands to importData
Mode(s) ==
    CASE s = "system" -> SYSTEM
      [] s = "data" -> DATA
      [] OTHER -> CAPACITY

\* AddError, were the goroutine to drop the errors importData returns
AddErrorDropsDecode(tk, s, kind) ==
    LET e == [task |-> tk, step |-> s, kind |-> kind,
              wrapped |-> (kind = "decode" /\ s # "identity")
                          \/ (kind # "decode" /\ s \in {"system", "data"})]
    IN IF kind = "none" \/ (kind = "decode" /\ s # "identity")
       THEN UNCHANGED <<errors, firstError>>
       ELSE /\ errors' = errors \cup {e}
            /\ firstError' = IF firstError = NoError THEN e ELSE firstError

\* AddError, were the goroutine to ignore what listSystemProperties returns
AddErrorIgnoresIdentity(tk, s, kind) ==
    LET e == [task |-> tk, step |-> s, kind |-> kind,
              wrapped |-> (kind = "decode" /\ s # "identity")
                          \/ (kind # "decode" /\ s \in {"system", "data"})]
    IN IF kind = "none" \/ s = "identity"
       THEN UNCHANGED <<errors, firstError>>
       ELSE /\ errors' = errors \cup {e}
            /\ firstError' = IF firstError = NoError THEN e ELSE firstError

\* acc.AddError(err) when err != nil, lines 162-176; listSystemProperties and
\* getCapacity return doRequest's error as it is, the other paths wrap it
AddError(tk, s, kind) ==
    LET e == [task |-> tk, step |-> s, kind |-> kind,
              wrapped |-> (kind = "decode" /\ s # "identity")
                          \/ (kind # "decode" /\ s \in {"system", "data"})]
    IN IF kind = "none"
       THEN UNCHANGED <<errors, firstError>>
       ELSE /\ errors' = errors \cup {e}
            /\ firstError' = IF firstError = NoError THEN e ELSE firstError

\* the goroutine leaves step s: on to the next call, or out of the function,
\* where the deferred wg.Done() runs
Advance(tk, s) ==
    IF NextStep(s) = "exit"
    THEN /\ pc' = [pc EXCEPT ![tk] = "done"]
         /\ step' = [step EXCEPT ![tk] = "exit"]
         /\ wg' = wg - 1
    ELSE /\ pc' = [pc EXCEPT ![tk] = "request"]
         /\ step' = [step EXCEPT ![tk] = NextStep(s)]
         /\ wg' = wg

\* Return, were wg.Done() called at the end of the function body instead of
\* deferred, and the last step's error path to return before it
ReturnSkipsDoneOnError(tk, s, kind) ==
    /\ AddError(tk, s, kind)
    /\ IF kind # "none" /\ NextStep(s) = "exit"
       THEN /\ pc' = [pc EXCEPT ![tk] = "done"]
            /\ step' = [step EXCEPT ![tk] = "exit"]
            /\ wg' = wg
       ELSE Advance(tk, s)

\* Return, were the goroutine to leave at the first error
ReturnAbortOnError(tk, s, kind) ==
    /\ AddError(tk, s, kind)
    /\ IF kind = "none"
       THEN Advance(tk, s)
       ELSE /\ pc' = [pc EXCEPT ![tk] = "done"]
            /\ step' = [step EXCEPT ![tk] = "exit"]
            /\ wg' = wg - 1

\* step s of goroutine tk returns with error `kind` ("none": nil)
Return(tk, s, kind) ==
    /\ AddError(tk, s, kind)
    /\ Advance(tk, s)

\* the loop over analytics, lines 260-315, from element k on: the records
\* AddFields receives, each with the index of its element
RECURSIVE importLoop(_, _, _, _, _, _, _)
importLoop(elems, k, host, t, sysname, orders, now) ==
    IF k > Len(elems)
    THEN <<>>
    ELSE LET recs == importElement(elems[k], host, t, sysname, orders[k], now)
         IN [j \in 1..Len(recs) |-> [elem |-> k, m |-> recs[j]]]
            \o importLoop(elems, k + 1, host, t, sysname, orders, now)

\* importData without the return of lines 256-258: the loop runs over
\* whatever Decode left in `analytics`
importDataIgnoresDecodeError(body, host, t, sysname, orders, now) ==
    [err |-> FALSE, out |-> importLoop(body.elems, 1, host, t, sysname, orders, now)]

\* importData, lines 251-317, called on its own: the decode error, or the
\* records added
importData(body, host, t, sysname, orders, now) ==
    IF body.json # "ok"
    THEN [err |-> TRUE, out |-> <<>>]
    ELSE [err |-> FALSE, out |-> importLoop(body.elems, 1, host, t, sysname, orders, now)]

\* what the accumulator keeps of a record: name, fields, tags and time
Metric(m) ==
    [measurement |-> m.measurement, fields |-> m.fields, tags |-> m.tags, ts |-> m.ts]

\* the metrics of one importData call, without their order
Metrics(out) == {Metric(out[j].m) : j \in DOMAIN out}

\* importData has not been called directly; `prev` is the call before the
\* last one
NoCall ==
    [calls |-> 0, body |-> NoBody, host |-> EmptyStr, t |-> "none",
     orders |-> <<>>, err |-> FALSE, out |-> <<>>,
     prev |-> [body |-> NoBody, host |-> EmptyStr, t |-> "none", metrics |-> {}]]

----------------------------------------------------------------------------
\* Gather and the goroutines it spawns.

Init ==
    /\ Servers \in ServerLists \cup OutageLists \cup UserinfoLists
    /\ \E c \in Credentials : Username = c[1] /\ Password = c[2]
    /\ DataMetrics \in {NilMap} \cup {Map(1..n) : n \in 0..MaxGroups}
    /\ CapacityMetrics \in {NilMap, Map({1})}
    /\ client = 0
    /\ clientsBuilt = 0
    /\ SystemName = <<>>
    /\ phase = "Idle"
    /\ ret = "none"
    /\ polls = 0
    /\ wg = 0
    /\ pc = [tk \in Tasks |-> "idle"]
    /\ step = [tk \in Tasks |-> "none"]
    /\ resp = [tk \in Tasks |-> <<>>]
    /\ idx = [tk \in Tasks |-> 0]
    /\ records = {}
    /\ errors = {}
    /\ firstError = NoError
    /\ requests = {}
    /\ clientsUsed = {}
    /\ faults = 0
    /\ imp = NoCall

\* GatherCall without the check of lines 148-150
GatherCallNoCheck ==
    /\ phase \in {"Idle", "Settled"}
    /\ polls < MaxPolls
    /\ polls' = polls + 1
    /\ records' = {}
    /\ errors' = {}
    /\ firstError' = NoError
    /\ requests' = {}
    /\ faults' = 0
    /\ phase' = "Collecting"
    /\ ret' = "none"
    /\ wg' = Len(Servers)
    /\ pc' = [tk \in Tasks |-> "request"]
    /\ step' = [tk \in Tasks |-> "identity"]
    /\ UNCHANGED <<config, imp, client, clientsBuilt, SystemName, resp, idx, clientsUsed>>

\* Gather is called with a fresh accumulator, lines 147-179: the empty-list
\* check, wg.Add and the go statements.  A goroutine that has been started
\* and has not run yet stands at "request".
GatherCall ==
    /\ phase \in {"Idle", "Settled"}
    /\ polls < MaxPolls
    /\ polls' = polls + 1
    /\ records' = {}
    /\ errors' = {}
    /\ firstError' = NoError
    /\ requests' = {}
    /\ faults' = 0
    /\ IF Len(Servers) = 0
       THEN /\ phase' = "Settled"
            /\ ret' = "no servers specified"
            /\ UNCHANGED <<wg, pc, step>>
       ELSE /\ phase' = "Collecting"
            /\ ret' = "none"
            /\ wg' = Len(Servers)
            /\ pc' = [tk \in Tasks |-> "request"]
            /\ step' = [tk \in Tasks |-> "identity"]
    /\ UNCHANGED <<config, imp, client, clientsBuilt, SystemName, resp, idx, clientsUsed>>

\* GatherReturn without wg.Wait()
GatherReturnNoWait ==
    /\ phase = "Collecting"
    /\ phase' = "Settled"
    /\ ret' = "nil"
    /\ UNCHANGED <<config, imp, client, clientsBuilt, SystemName, polls, wg, pc, step,
                   resp, idx, records, errors, firstError, requests, clientsUsed,
                   faults>>

\* wg.Wait() returns and Gather returns nil, lines 181-182
GatherReturn ==
    /\ phase = "Collecting"
    /\ wg = 0
    /\ phase' = "Settled"
    /\ ret' = "nil"
    /\ UNCHANGED <<config, imp, client, clientsBuilt, SystemName, polls, wg, pc, step,
                   resp, idx, records, errors, firstError, requests, clientsUsed,
                   faults>>

\* the request body a step builds, lines 188, 203, 218-234: for DATA the
\* range over s.DataMetrics overwrites `data` in every iteration, so the
\* body is that of the map entry visited last (0: data stays nil)
RequestData(s, last) ==
    CASE s = "identity" -> [op |-> "listSystemProperties", method |-> "POST", group |-> 0]
      [] s = "system" -> [op |-> "getOneMinuteSystemAnalyticsHistory", method |-> "POST", group |-> 0]
      [] s = "data" -> [op |-> "getOneMinuteDataAnalyticsHistory", method |-> "POST", group |-> last]
      [] OTHER -> [op |-> "listPools", method |-> "GET", group |-> 0]

\* the map entries a range over s.DataMetrics can visit last
LastGroups(s) ==
    IF s = "data" /\ DataMetrics.keys # {} THEN DataMetrics.keys ELSE {0}

\* Send without the credentials check of lines 356-360
SendUnchecked(tk) ==
    /\ \E last \in LastGroups(step[tk]) :
         requests' = requests \cup
             {[task |-> tk, addr |-> Servers[tk], step |-> step[tk],
               data |-> RequestData(step[tk], last),
               auth |-> Authorization(Servers[tk], Username, Password).auth]}
    /\ clientsUsed' = clientsUsed \cup {client}
    /\ pc' = [pc EXCEPT ![tk] = "wait"]
    /\ UNCHANGED <<step, wg, errors, firstError>>

\* doRequest from line 337 on: the credentials check and s.client.Do(req)
Send(tk) ==
    LET s == step[tk]
        a == Authorization(Servers[tk], Username, Password)
    IN
    IF ~a.err
    THEN /\ \E last \in LastGroups(s) :
              requests' = requests \cup
                  {[task |-> tk, addr |-> Servers[tk], step |-> s,
                    data |-> RequestData(s, last), auth |-> a.auth]}
         /\ clientsUsed' = clientsUsed \cup {client}
         /\ pc' = [pc EXCEPT ![tk] = "wait"]
         /\ UNCHANGED <<step, wg, errors, firstError>>
    ELSE /\ Return(tk, s, "creds")
         /\ UNCHANGED <<requests, clientsUsed>>

\* doRequest is entered, line 321: s.client is read; when it is set the call
\* goes on to the request
DoRequest(tk) ==
    /\ pc[tk] = "request"
    /\ IF client = 0
       THEN /\ pc' = [pc EXCEPT ![tk] = "mkclient"]
            /\ UNCHANGED <<step, wg, errors, firstError, requests, clientsUsed>>
       ELSE Send(tk)
    /\ UNCHANGED <<config, imp, client, clientsBuilt, SystemName, phase, ret, polls,
                   resp, idx, records, faults>>

\* lines 322-334: a goroutine that read s.client as nil constructs a client
\* and stores it
MakeClient(tk) ==
    /\ pc[tk] = "mkclient"
    /\ clientsBuilt' = clientsBuilt + 1
    /\ client' = clientsBuilt + 1
    /\ pc' = [pc EXCEPT ![tk] = "send"]
    /\ UNCHANGED <<config, imp, SystemName, phase, ret, polls, wg, step, resp, idx,
                   records, errors, firstError, requests, clientsUsed, faults>>

\* lines 337-365 of the call that constructed a client: s.client is read
\* again by s.client.Do
SendRequest(tk) ==
    /\ pc[tk] = "send"
    /\ Send(tk)
    /\ UNCHANGED <<config, imp, client, clientsBuilt, SystemName, phase, ret, polls,
                   resp, idx, records, faults>>

\* json.NewDecoder(resp.Body).Decode(&s.SystemName), lines 193-196: a JSON
\* list of strings replaces the slice; text that is not JSON is an error and
\* leaves the slice as it was
DecodeNames(body, old) ==
    IF body.json = "ok"
    THEN [err |-> FALSE, val |-> body.names]
    ELSE [err |-> TRUE, val |-> old]

\* the answers a request of step s to addr can get: s.client.Do fails
\* (transport error or timeout), a status other than 200, or 200 with a body
Answers(s, addr) ==
    IF addr \in Unreachable
    THEN {[http |-> "connect", body |-> NoBody]}
    ELSE {[http |-> "connect", body |-> NoBody], [http |-> "status", body |-> NoBody]}
         \cup {[http |-> "ok", body |-> b] :
                 b \in IF s = "identity" THEN IdentityBodies(addr)
                       ELSE AnalyticsBodies(Mode(s))}

\* an answer that makes the step fail
Failing(a) == a.http # "ok" \/ a.body.json # "ok"

\* lines 362-376 and the caller's handling of what doRequest returns:
\* listSystemProperties decodes into s.SystemName (lines 189-197); the other
\* steps hand the body to importData, which decodes it (lines 255-258)
Handle(tk, s, a) ==
    CASE a.http # "ok" ->
           /\ Return(tk, s, a.http)
           /\ UNCHANGED <<SystemName, resp, idx>>
      [] a.http = "ok" /\ s = "identity" ->
           LET d == DecodeNames(a.body, SystemName) IN
           /\ SystemName' = d.val
           /\ Return(tk, s, IF d.err THEN "decode" ELSE "none")
           /\ UNCHANGED <<resp, idx>>
      [] a.http = "ok" /\ s # "identity" /\ a.body.json # "ok" ->
           /\ Return(tk, s, "decode")
           /\ UNCHANGED <<SystemName, resp, idx>>
      [] a.http = "ok" /\ s # "identity" /\ a.body.json = "ok"
           /\ a.body.elems = <<>> ->
           /\ Return(tk, s, "none")
           /\ UNCHANGED <<SystemName, resp, idx>>
      [] OTHER ->
           /\ pc' = [pc EXCEPT ![tk] = "import"]
           /\ resp' = [resp EXCEPT ![tk] = a.body.elems]
           /\ idx' = [idx EXCEPT ![tk] = 1]
           /\ UNCHANGED <<SystemName, step, wg, errors, firstError>>

\* the answer to the request in flight arrives; `faults` counts the failing
\* answers of the cycle, and those of reachable servers are limited
Respond(tk) ==
    /\ pc[tk] = "wait"
    /\ \E a \in Answers(step[tk], Servers[tk]) :
         /\ \/ Servers[tk] \in Unreachable
            \/ ~Failing(a)
            \/ faults + 1 <= MaxFaults
         /\ faults' = faults + (IF Failing(a) THEN 1 ELSE 0)
         /\ Handle(tk, step[tk], a)
    /\ UNCHANGED <<config, imp, client, clientsBuilt, phase, ret, polls, records, requests,
                   clientsUsed>>

\* the elements of a sequence
Range(f) == {f[i] : i \in DOMAIN f}

\* one iteration of importData's loop over analytics, lines 260-315, and,
\* after the last one, its return to the caller
ImportElement(tk) ==
    /\ pc[tk] = "import"
    /\ LET s == step[tk]
           e == resp[tk][idx[tk]]
       IN /\ \E order \in Orders(DOMAIN e.Datapoints), now \in WallClock :
                records' = records \cup
                    {[task |-> tk, step |-> s, elem |-> idx[tk], m |-> r] :
                       r \in Range(importElement(e, Servers[tk], Mode(s), SystemName,
                                                 order, now))}
          /\ IF idx[tk] < Len(resp[tk])
             THEN /\ idx' = [idx EXCEPT ![tk] = idx[tk] + 1]
                  /\ UNCHANGED <<pc, step, wg, resp, errors, firstError>>
             ELSE /\ Return(tk, s, "none")
                  /\ resp' = [resp EXCEPT ![tk] = <<>>]
                  /\ idx' = [idx EXCEPT ![tk] = 0]
    /\ UNCHANGED <<config, imp, client, clientsBuilt, SystemName, phase, ret, polls, requests,
                   clientsUsed, faults>>

Next ==
    \/ GatherCall
    \/ GatherReturn
    \/ \E tk \in Tasks : DoRequest(tk)
    \/ \E tk \in Tasks : MakeClient(tk)
    \/ \E tk \in Tasks : SendRequest(tk)
    \/ \E tk \in Tasks : Respond(tk)
    \/ \E tk \in Tasks : ImportElement(tk)

Spec == Init /\ [][Next]_vars

\* the steps of goroutine tk
TaskStep(tk) ==
    /\ tk \in Tasks
    /\ \/ DoRequest(tk)
       \/ MakeClient(tk)
       \/ SendRequest(tk)
       \/ Respond(tk)
       \/ ImportElement(tk)

\* Spec with the scheduler's fairness: a goroutine that can run does run,
\* every request in flight is answered (or times out: lines 326-333 set the
\* timeouts), and Gather returns once wg.Wait() can return
\* The configuration is the one with every optional step configured.
FairInit ==
    /\ Init
    /\ DataMetrics = Map({1})
    /\ CapacityMetrics = Map({1})

FairSpec ==
    /\ FairInit
    /\ [][Next]_vars
    /\ WF_vars(GatherReturn)
    /\ \A tk \in 1..MaxServers : WF_vars(TaskStep(tk))

----------------------------------------------------------------------------
\* importData called on its own, as TestCorrectJSON and TestIncorrectJSON do.

CpuTwoPaths ==
    Element("CPU", "", EmptyStr, <<1500, 61999>>,
            (<<"A", "/", "U">> :> <<0, 25>>) @@ (<<"A", "/", "S">> :> <<5, 6>>),
            EmptyStr, 0, 0)

CpuLowerCase ==
    Element("cpu", "", EmptyStr, <<-1500>>,
            (<<"B", "/", "U">> :> <<3>>), EmptyStr, 0, 0)

NetworkElement ==
    Element("NETWORK", "", EmptyStr, <<999>>,
            (<<"B", "/", "I", "G", "/", "m", "/", "T">> :> <<0>>)
            @@ (<<"B", "/", "T", "/", "R">> :> <<4>>),
            EmptyStr, 0, 0)

PoolPerformanceElement ==
    Element("POOL_PERFORMANCE", "", EmptyStr, <<2000>>,
            (<<"p", "/", "D", "/", "W">> :> <<12>>), EmptyStr, 0, 0)

CacheHitsElement ==
    Element("CACHE_HITS", "", EmptyStr, <<2000>>,
            (<<"A", "/", "H">> :> <<1>>), EmptyStr, 0, 0)

UnknownElement ==
    Element("DISK", "", EmptyStr, <<2000>>,
            (<<"x", "/", "y">> :> <<2>>), EmptyStr, 0, 0)

VmTwoPaths ==
    Element("", "Vm", <<"v", "1">>, <<1500, 2500>>,
            (<<"R">> :> <<7, 8>>) @@ (<<"W">> :> <<1, 2>>), EmptyStr, 0, 0)

\* an element of a category importData has no case for, with two paths of
\* two samples each
UnknownTwoPaths ==
    Element("DISK", "", EmptyStr, <<1500, 61999>>,
            (<<"x", "/", "y">> :> <<2, 3>>) @@ (<<"x", "/", "z">> :> <<4, 5>>),
            EmptyStr, 0, 0)

ImportElements ==
    {CpuTwoPaths, CpuLowerCase, NetworkElement, PoolPerformanceElement,
     CacheHitsElement, UnknownElement, UnknownTwoPaths, VmTwoPaths, PoolElement}

\* JSON that is an object, not a list: Decode fails and `analytics` stays nil
ShapeBody == [json |-> "shape", names |-> <<>>, elems |-> <<>>]

\* a JSON list holding an object and a value that is no object: Decode
\* fails after it has filled `analytics` with what it could decode
MixedBody == [json |-> "mixed", names |-> <<>>, elems |-> <<CpuElement>>]

\* the response bodies importData is called on
ImportBodies ==
    {BadBody, ShapeBody, MixedBody, OkBody(<<>>)}
    \cup {OkBody(<<e>>) : e \in ImportElements}
    \cup {OkBody(<<CpuTwoPaths, NetworkElement>>), OkBody(<<VmTwoPaths, DatasetElement>>),
          OkBody(<<NetworkElement, UnknownTwoPaths>>)}

\* direct calls of importData the model makes
MaxCalls == 2

\* for every element, an order in which the range visits its datapoints
OrdersOf(elems) ==
    {os \in [DOMAIN elems -> UNION {Orders(DOMAIN elems[k].Datapoints) : k \in DOMAIN elems}] :
        \A k \in DOMAIN elems : os[k] \in Orders(DOMAIN elems[k].Datapoints)}

\* a collector as the tests construct it; s.SystemName is empty or holds a
\* name found earlier
InitImport ==
    /\ Servers = <<<<"a">>>>
    /\ Username = Lit("admin")
    /\ Password = Lit("admin")
    /\ DataMetrics = NilMap
    /\ CapacityMetrics = NilMap
    /\ client = 0
    /\ clientsBuilt = 0
    /\ SystemName \in {<<>>, <<FQDN(<<"a">>)>>}
    /\ phase = "Idle"
    /\ ret = "none"
    /\ polls = 0
    /\ wg = 0
    /\ pc = [tk \in Tasks |-> "idle"]
    /\ step = [tk \in Tasks |-> "none"]
    /\ resp = [tk \in Tasks |-> <<>>]
    /\ idx = [tk \in Tasks |-> 0]
    /\ records = {}
    /\ errors = {}
    /\ firstError = NoError
    /\ requests = {}
    /\ clientsUsed = {}
    /\ faults = 0
    /\ imp = NoCall

\* s.importData(strings.NewReader(body), &acc, host, t) with a fresh acc
ImportData ==
    /\ imp.calls < MaxCalls
    /\ \E body \in ImportBodies, host \in Addrs, t \in {SYSTEM, DATA, CAPACITY},
          now \in WallClock :
         \E orders \in OrdersOf(body.elems) :
            LET r == importData(body, host, t, SystemName, orders, now) IN
            imp' = [calls |-> imp.calls + 1, body |-> body, host |-> host, t |-> t,
                    orders |-> orders, err |-> r.err, out |-> r.out,
                    prev |-> [body |-> imp.body, host |-> imp.host, t |-> imp.t,
                              metrics |-> Metrics(imp.out)]]
    /\ UNCHANGED <<config, client, clientsBuilt, SystemName, phase, ret, polls, wg, pc,
                   step, resp, idx, records, errors, firstError, requests,
                   clientsUsed, faults>>

NextImport == ImportData

SpecImport == InitImport /\ [][NextImport]_vars

\* the (datapoint path, sample index) pairs of an element
Samples(e) ==
    UNION {{<<dp, i>> : i \in 1..Len(e.Datapoints[dp])} : dp \in DOMAIN e.Datapoints}

\* the records of `out` that come from element k
RecordsOfElement(out, k) == {j \in DOMAIN out : out[j].elem = k}

\* sec is ms / 1000 with the fraction cut off
TruncatedSeconds(ms, sec) ==
    IF ms >= 0
    THEN sec * 1000 <= ms /\ ms < sec * 1000 + 1000
    ELSE sec * 1000 >= ms /\ ms > sec * 1000 - 1000

\* the sample sequences of e are as long as its timestamps
WellFormed(e) ==
    \A dp \in DOMAIN e.Datapoints : Len(e.Datapoints[dp]) = Len(e.Timestamps)

\* C9: a decoded system or data response whose sample sequences are as long
\* as the timestamps yields, per element, exactly one record for every
\* (datapoint path, sample index i), so as many records as there are samples,
\* and that record's time is timestamps[i] / 1000 cut to whole seconds.
C9_OneRecordPerSample ==
    (imp.calls > 0 /\ ~imp.err /\ imp.t \in {SYSTEM, DATA}) =>
        \A k \in DOMAIN imp.body.elems :
            LET e == imp.body.elems[k]
                recs == RecordsOfElement(imp.out, k)
            IN WellFormed(e) =>
                 /\ Cardinality(recs) = Cardinality(Samples(e))
                 /\ \A p \in Samples(e) :
                      \E j \in recs :
                         /\ imp.out[j].m.dp = p[1] /\ imp.out[j].m.i = p[2]
                         /\ TruncatedSeconds(e.Timestamps[p[2]], imp.out[j].m.ts)
                         /\ \A j2 \in recs :
                              (imp.out[j2].m.dp = p[1] /\ imp.out[j2].m.i = p[2]) => j2 = j

C9_Witness ==
    /\ imp.calls > 0 /\ ~imp.err /\ imp.t = SYSTEM
    /\ imp.body = OkBody(<<CpuTwoPaths, NetworkElement>>)
    /\ Len(imp.out) = 6
    /\ \E j \in DOMAIN imp.out : imp.out[j].m.ts = 61

\* the element's category is one importData has a rule for
Recognized(e, t) ==
    t = DATA \/ ToUpper(e.SystemAnalyticsType) \in
                   {"POOL_PERFORMANCE", "NETWORK", "CPU", "CACHE_HITS"}

\* C10: every record of a recognized category in system or data mode has
\* exactly one field, and its value is the sample the record was made for.
C10_ExactlyOneField ==
    (imp.calls > 0 /\ ~imp.err /\ imp.t \in {SYSTEM, DATA}) =>
        \A j \in DOMAIN imp.out :
            LET e == imp.body.elems[imp.out[j].elem]
                m == imp.out[j].m
            IN Recognized(e, imp.t) =>
                 /\ Cardinality(DOMAIN m.fields) = 1
                 /\ \A f \in DOMAIN m.fields : m.fields[f] = e.Datapoints[m.dp][m.i]

----------------------------------------------------------------------------
\* Properties of the poll cycle.

\* the steps a goroutine runs under the configuration
ConfiguredSteps ==
    {"identity", "system"}
    \cup (IF DataMetrics.nil THEN {} ELSE {"data"})
    \cup (IF CapacityMetrics.nil THEN {} ELSE {"capacity"})

StepOrder(s) ==
    CASE s = "identity" -> 1
      [] s = "system" -> 2
      [] s = "data" -> 3
      [] s = "capacity" -> 4
      [] OTHER -> 5

Failed(tk, s) == \E e \in errors : e.task = tk /\ e.step = s

Requested(tk, s) == \E r \in requests : r.task = tk /\ r.step = s

RecordsOf(tk) == {r \in records : r.task = tk}

\* C1: Gather on an empty server list returns the "no servers specified"
\* error at once: no goroutine is started, no client is built, no request is
\* sent, and the accumulator gets neither a metric nor an error.
C1_EmptyServersFailFast ==
    Len(Servers) = 0 =>
        /\ phase \in {"Idle", "Settled"}
        /\ polls > 0 => (phase = "Settled" /\ ret = "no servers specified")
        /\ wg = 0
        /\ DOMAIN pc = {}
        /\ requests = {} /\ clientsBuilt = 0 /\ clientsUsed = {}
        /\ records = {} /\ errors = {} /\ firstError = NoError

C1_Witness ==
    Len(Servers) = 0 /\ polls > 0 /\ phase = "Settled" /\ ret = "no servers specified"

\* no address is configured twice
DistinctServers ==
    \A i, j \in Tasks : Servers[i] = Servers[j] => i = j

\* the metrics the goroutine of tk adds when it is the only one and every
\* request of it is answered by a healthy array
AloneRecords(tk) ==
    UNION {UNION {UNION {
        {[task |-> tk, step |-> s, elem |-> k, m |-> r] :
            r \in Range(importElement(ValidElems(Mode(s))[k], Servers[tk], Mode(s),
                                      <<FQDN(Servers[tk])>>, order, now))} :
        order \in Orders(DOMAIN ValidElems(Mode(s))[k].Datapoints)} :
        k \in 1..Len(ValidElems(Mode(s)))} :
        <<s, now>> \in (ConfiguredSteps \ {"identity"}) \X WallClock}

\* C2: in the first Gather call over distinct servers, a server whose every
\* request succeeded ends the cycle with exactly the metrics it adds when it
\* is polled alone, whatever failed at another server.
C2_FailureLeavesOtherServersRecords ==
    (polls = 1 /\ phase = "Settled" /\ Len(Servers) >= 2 /\ DistinctServers) =>
        \A tk \in Tasks :
            ((\A s \in ConfiguredSteps : Requested(tk, s) /\ ~Failed(tk, s))
             /\ \E e \in errors : e.task # tk)
            => RecordsOf(tk) = AloneRecords(tk)

\* C3: in one goroutine every failing answer puts one error into the
\* accumulator and the goroutine goes on: after a failure of a step it is
\* past that step, and a goroutine that is done has run every configured
\* step (each one sent its request or reported its error).
C3_StepFailureDoesNotStopTask ==
    /\ (Username # EmptyStr \/ Password # EmptyStr) => Cardinality(errors) = faults
    /\ \A tk \in Tasks :
         /\ \A e \in errors : e.task = tk => StepOrder(step[tk]) > StepOrder(e.step)
         /\ pc[tk] = "done" =>
               \A s \in ConfiguredSteps : Failed(tk, s) \/ Requested(tk, s)

C3_Witness ==
    \E tk \in Tasks :
        /\ pc[tk] = "done"
        /\ Failed(tk, "system") /\ ~Failed(tk, "data") /\ ~Failed(tk, "capacity")
        /\ Requested(tk, "data") /\ Requested(tk, "capacity")
        /\ \E r \in RecordsOf(tk) : r.step = "data"
        /\ \E r \in RecordsOf(tk) : r.step = "capacity"

\* C4: Gather on a non-empty server list returns only when every goroutine
\* is done (none is waiting for an answer or importing), it returns nil
\* whatever errors were collected, and between its return and the next call
\* the accumulator and the request log do not change.
C4_GatherJoinsAllTasks ==
    /\ [](phase = "Settled" /\ Len(Servers) > 0 =>
             ret = "nil" /\ wg = 0 /\ \A tk \in Tasks : pc[tk] = "done")
    /\ [][phase = "Settled" /\ phase' = "Settled" =>
             UNCHANGED <<records, errors, firstError, requests>>]_vars

C4_Witness ==
    /\ phase = "Settled" /\ ret = "nil" /\ Len(Servers) = 2
    /\ errors # {}
    /\ \A tk \in Tasks : RecordsOf(tk) # {}

\* C5: under fair scheduling, with every request answered, a Gather call
\* that started its goroutines returns; while it waits, the WaitGroup
\* counter is the number of goroutines not yet done (each one calls Done
\* once, whichever of its steps failed).
C5_GatherTerminates ==
    /\ [](phase = "Collecting" =>
             wg = Cardinality({tk \in Tasks : pc[tk] # "done"}))
    /\ (phase = "Collecting") ~> (phase = "Settled")

C5_Witness ==
    /\ phase = "Settled" /\ ret = "nil" /\ Len(Servers) = 2 /\ faults > 0
    /\ \E tk \in Tasks : Failed(tk, "capacity")

\* C6: in the first Gather call over distinct servers every metric of a
\* server carries as `array` tag that server's own reported name when its
\* identity lookup succeeded, and its configured address otherwise.
C6_ArrayTagIsOwnServer ==
    (polls = 1 /\ Len(Servers) >= 2 /\ DistinctServers) =>
        \A r \in records :
            r.m.tags["array"] = IF Failed(r.task, "identity")
                                THEN Servers[r.task]
                                ELSE FQDN(Servers[r.task])

\* C7: one collector constructs one http.Client, and every request is sent
\* with it.
C7_SingleClient ==
    clientsBuilt <= 1 /\ Cardinality(clientsUsed) <= 1

\* C8: with username and password both empty no request is ever sent and no
\* metric is added; every error in the accumulator, the first one included,
\* is the missing-credentials error; Gather returns nil, and by then every
\* configured step of every goroutine has reported that error.
C8_MissingCredentials ==
    (Username = EmptyStr /\ Password = EmptyStr) =>
        /\ requests = {} /\ clientsUsed = {} /\ records = {}
        /\ \A e \in errors : e.kind = "creds"
        /\ errors # {} => firstError \in errors
        /\ \A tk \in Tasks : pc[tk] # "wait"
        /\ (phase = "Settled" /\ Len(Servers) > 0) =>
              /\ ret = "nil"
              /\ \A tk \in Tasks : \A s \in ConfiguredSteps : Failed(tk, s)

C8_Witness ==
    /\ Username = EmptyStr /\ Password = EmptyStr
    /\ phase = "Settled" /\ ret = "nil" /\ Len(Servers) = 2
    /\ firstError.kind = "creds"
    /\ Cardinality(errors) = 2 * Cardinality(ConfiguredSteps)

\* the errors in the accumulator that step s of goroutine tk added
ErrorsOf(tk, s) == {e \in errors : e.task = tk /\ e.step = s}

\* the steps that failed in the cycle: the failing answers received, and,
\* without credentials, every step that ran (it fails before it sends)
FailedSteps ==
    IF Username = EmptyStr /\ Password = EmptyStr
    THEN Cardinality({<<tk, s>> \in Tasks \X ConfiguredSteps :
                         StepOrder(step[tk]) > StepOrder(s)})
    ELSE faults

\* C11: at every moment of a cycle, and so at its end, the accumulator holds
\* as many errors as steps have failed: a failed step added one error, no
\* step added two, and a step that added metrics added no error.
C11_OneErrorPerFailedStep ==
    (Len(Servers) > 0 /\ polls > 0) =>
        /\ Cardinality(errors) = FailedSteps
        /\ \A tk \in Tasks : \A s \in ConfiguredSteps : Cardinality(ErrorsOf(tk, s)) <= 1
        /\ \A r \in records : ErrorsOf(r.task, r.step) = {}
        /\ \A e \in errors : e.step \in ConfiguredSteps

C11_Witness ==
    /\ phase = "Settled" /\ Servers = <<<<"x">>, <<"b">>>>
    /\ Cardinality(errors) = 4
    /\ \E e \in errors : e.kind = "connect" /\ e.step = "capacity" /\ e.task = 1
    /\ \E r \in records : r.task = 2 /\ r.step = "capacity"

\* a cycle over an unreachable first server and a second server whose every
\* request was answered with a valid response has ended
OutageCycleEnded ==
    /\ phase = "Settled" /\ Servers \in OutageLists
    /\ Username # EmptyStr \/ Password # EmptyStr
    /\ \A s \in ConfiguredSteps : Requested(2, s) /\ ~Failed(2, s)

\* C12 as stated: after such a cycle the accumulator holds exactly one error
\* and all the metrics of the second server.
C12_ExactlyOneError ==
    OutageCycleEnded =>
        /\ Cardinality(errors) = 1
        /\ RecordsOf(2) = AloneRecords(2)

\* C12: after such a cycle the accumulator holds one transport error for each
\* configured step of the first server (identity and system, and data and
\* capacity when configured: two to four errors), no error of the second
\* server, no metric of the first and all the metrics of the second.
C12_OneErrorPerStepOfFailedServer ==
    OutageCycleEnded =>
        /\ Cardinality(errors) = Cardinality(ConfiguredSteps)
        /\ \A s \in ConfiguredSteps :
              \E e \in errors : e.task = 1 /\ e.step = s /\ e.kind = "connect"
        /\ RecordsOf(1) = {}
        /\ RecordsOf(2) = AloneRecords(2)

C12_Witness ==
    /\ OutageCycleEnded
    /\ ConfiguredSteps = {"identity", "system", "data", "capacity"}
    /\ Cardinality(errors) = 4
    /\ Cardinality(RecordsOf(2)) = 5

C14_CycleIgnoresEarlierName ==
    (Len(Servers) = 1 /\ polls >= 1) =>
        \A r \in records :
            Failed(r.task, "identity") => r.m.tags["array"] = Servers[r.task]

\* C15: two importData calls on the same body with the same host and mode,
\* on a collector whose state did not change in between, add the same set of
\* metrics.
C15_SameResponseSameMetrics ==
    (imp.calls >= 2 /\ ~imp.err
       /\ imp.prev.body = imp.body /\ imp.prev.host = imp.host /\ imp.prev.t = imp.t)
    => Metrics(imp.out) = imp.prev.metrics

\* C16: of the metrics importData adds for a NETWORK element in system mode,
\* those of a per-interface path (second segment starting with "I") carry
\* the path's third segment as `interface` tag, and those of a
\* controller-total path carry no `interface` tag.
C16_InterfaceTagOnlyOnInterfacePaths ==
    (imp.calls > 0 /\ ~imp.err /\ imp.t = SYSTEM) =>
        \A j \in DOMAIN imp.out :
            LET e == imp.body.elems[imp.out[j].elem]
                m == imp.out[j].m
                name == Split(m.dp, Slash)
            IN ToUpper(e.SystemAnalyticsType) = "NETWORK" =>
                 IF HasPrefix(name[2], <<"I">>)
                 THEN "interface" \in DOMAIN m.tags /\ m.tags["interface"] = name[3]
                 ELSE "interface" \notin DOMAIN m.tags

\* the requests goroutine tk sent for step s in the cycle
RequestsOf(tk, s) == {r \in requests : r.task = tk /\ r.step = s}

\* C17: with N >= 1 data_metrics groups configured, a goroutine that is done
\* has sent one system-analytics request and one data-analytics request for
\* each group, carrying that group's filters.
C17_OneDataRequestPerGroup ==
    ((Username # EmptyStr \/ Password # EmptyStr) /\ DataMetrics.keys # {}) =>
        \A tk \in Tasks :
            pc[tk] = "done" =>
                /\ Cardinality(RequestsOf(tk, "system")) = 1
                /\ {r.data.group : r \in RequestsOf(tk, "data")} = DataMetrics.keys
                /\ Cardinality(RequestsOf(tk, "data")) = Cardinality(DataMetrics.keys)

\* C18: a data-analytics request is sent only when data_metrics holds at
\* least one group, a capacity request only when capacity holds at least one
\* entry, and a goroutine that is done (with credentials configured) has
\* sent its system-analytics request.
C18_OptionalStepsOnlyWhenConfigured ==
    /\ \A r \in requests :
          /\ r.step = "data" => DataMetrics.keys # {}
          /\ r.step = "capacity" => CapacityMetrics.keys # {}
    /\ (Username # EmptyStr \/ Password # EmptyStr) =>
          \A tk \in Tasks : pc[tk] = "done" => Requested(tk, "system")

\* the goroutines whose request to addr is in flight
InFlight(addr) == {tk \in Tasks : Servers[tk] = addr /\ pc[tk] = "wait"}

\* C19: at every moment of a Gather call at most one request is in flight to
\* any one address, whatever the server list (an address may be listed
\* twice), and a goroutine has sent no request of a step later than the one
\* it is in.
C19_OneRequestInFlightPerServer ==
    /\ \A tk \in Tasks : Cardinality(InFlight(Servers[tk])) <= 1
    /\ \A r \in requests : StepOrder(r.step) <= StepOrder(step[r.task])

\* the credentials of the configuration, when there are any
Configured == Username # EmptyStr \/ Password # EmptyStr

\* C20: a request is sent with the configured credentials when a username
\* or a password is configured, and with the credentials of the URL's
\* userinfo otherwise; the missing-credentials error is reported only for a
\* server whose URL has no userinfo, with nothing configured; and a server
\* that has credentials from either source gets its requests sent.
C20_UserinfoCredentialsAreUsed ==
    /\ \A r \in requests :
          /\ r.auth.set
          /\ Configured => r.auth.user = Username /\ r.auth.password = Password
          /\ ~Configured => /\ r.auth.user = UserInfo(r.addr).user
                            /\ r.auth.password = UserInfo(r.addr).password
    /\ \A e \in errors :
          e.kind = "creds" => ~Configured /\ ~UserInfo(Servers[e.task]).present
    /\ \A tk \in Tasks :
          (pc[tk] = "done" /\ (Configured \/ UserInfo(Servers[tk]).present)) =>
              \A s \in ConfiguredSteps : Requested(tk, s)

\* C21: importData in system mode on a decoded response returns no error,
\* and for every element whose category is none of CPU, NETWORK, CACHE_HITS
\* and POOL_PERFORMANCE it adds exactly one metric per (datapoint path,
\* sample index), with `array` as its only tag and without any field,
\* whatever elements precede it in the response.
C21_UnknownCategoryBareRecords ==
    (imp.calls > 0 /\ imp.t = SYSTEM /\ imp.body.json = "ok") =>
        /\ ~imp.err
        /\ \A k \in DOMAIN imp.body.elems :
              LET e == imp.body.elems[k]
                  recs == RecordsOfElement(imp.out, k)
              IN ~Recognized(e, SYSTEM) =>
                   /\ Cardinality(recs) = Cardinality(Samples(e))
                   /\ \A p \in Samples(e) :
                        \E j \in recs : imp.out[j].m.dp = p[1] /\ imp.out[j].m.i = p[2]
                   /\ \A j \in recs :
                        /\ DOMAIN imp.out[j].m.tags = {"array"}
                        /\ DOMAIN imp.out[j].m.fields = {}
                        /\ imp.out[j].m.measurement = e.SystemAnalyticsType

C21_Witness ==
    /\ imp.calls > 0 /\ imp.t = SYSTEM /\ ~imp.err
    /\ imp.body = OkBody(<<NetworkElement, UnknownTwoPaths>>)
    /\ Cardinality(RecordsOfElement(imp.out, 2)) = 4
    /\ \A j \in RecordsOfElement(imp.out, 2) :
          DOMAIN imp.out[j].m.tags = {"array"} /\ imp.out[j].m.measurement = "DISK"

====
